---- MODULE Spec2Model ----
(***************************************************************************)
(* Ephemeral Message Relay: the process-wide message store, the /send and  *)
(* /recv request handlers (run by concurrent worker threads) and the       *)
(* background cleanup thread.                                               *)
(*                                                                         *)
(* The handlers hold no lock.  Each handler is therefore modelled as the   *)
(* sequence of its accesses to the shared dict and to the shared record    *)
(* objects; the interpreter may switch threads between any two of them.    *)
(* Records are heap objects: a handler that has fetched `entry` keeps its  *)
(* reference after the key was deleted or re-assigned.                      *)
(***************************************************************************)
EXTENDS Integers, Sequences, FiniteSets, TLC

\* ---------------------------------------------------------------- bounds
MaxPuts == 2          \* number of /send requests in a run
MaxTime == 2          \* the clock runs from 0 to MaxTime
MaxThreads == 2       \* threads (workers, cleanup thread) taking part in a run

\* ------------------------------------------------------ program constants
TTL_SECONDS == 60

\* ----------------------------------------------------------- input sets
Ids     == {"a1", "b2"}            \* values secrets.token_hex(4) may return
\* Tokens are interchangeable, so the n-th send draws from the first n of them:
\* the first token is a1, the second collides with it or is the fresh b2.
Tokens(n) == IF n = 1 THEN {"a1"} ELSE Ids
Workers == {1, 2}                  \* request threads serving /recv
Cleaner == 0                       \* the cleanup thread

\* An optional integer field of MessageIn (int | None).  An omitted ttl
\* arrives as None, an omitted max_views as 1, the default of the field; a
\* JSON null arrives as None.
None    == [some |-> FALSE, val |-> 0]
Some(n) == [some |-> TRUE, val |-> n]
TtlInputs  == {None} \cup {Some(n) : n \in {0, 1}}
ViewInputs == {None} \cup {Some(n) : n \in {-1, 0, 1, 2}}

VARIABLES
    now,      \* time.time()
    store,    \* the dict: id -> reference of the record object, 0 = no such key
    obj,      \* the record objects, in order of creation; reference = index
    resp,     \* the latest response: of a /recv its status and text, of a
              \* /send the id and expires_in it returns, with the request,
              \* of a view page its msg_id and countdown
    th,       \* per worker: position in recv and its locals
    sw,       \* the cleanup thread: position in cleanup_loop and its locals
    started   \* the threads that have run so far

vars == <<now, store, obj, resp, th, sw, started>>

\* ------------------------------------------------------------- helpers

\* A send that ignores the request field.
AlwaysDefault(x, default) == default

\* Python's `x or default` on an optional integer: None and 0 are falsy.
PyOr(x, default) == IF x.some /\ x.val # 0 THEN x.val ELSE default

\* len(store)
Keys == {k \in Ids : store[k] # 0}
StoreLen == Cardinality(Keys)

\* GET /health: the "messages" field of the response.
Health == StoreLen

\* The filter of the list comprehension in cleanup_loop.
IsExpired(v, t) == v.expires < t \/ v.views_left <= 0

\* entry["views_left"] -= 1, the value written back.
Decrement(n) == n - 1

\* `if entry["views_left"] <= 0` in recv.
Exhausted(v) == v.views_left <= 0

\* A request field that InvalidConfiguration is to reject.
NonPositive(x) == x.some /\ x.val <= 0

\* A request InvalidConfiguration lets through.
Valid(msg) == ~NonPositive(msg.ttl) /\ ~NonPositive(msg.max_views)

\* The record send stores.  data, expires and views_left are the dict's three
\* keys.  The other fields are history kept for the properties: whether the
\* request had positive fields, the view count the record was created with,
\* the number of /recv responses that carried it, whether two recv calls have
\* held it at the same time, and whether the cleanup thread has deleted its
\* key.
NewRecord(text, expires, views_left, valid) ==
    [data |-> text, expires |-> expires, views_left |-> views_left,
     valid |-> valid, views |-> views_left, served |-> 0, raced |-> FALSE,
     swept |-> FALSE]

\* A record object nothing refers to any more is freed; of its history only
\* the validity of its request is kept.
Freed(v) == [data |-> 0, expires |-> 0, views_left |-> 0,
             valid |-> v.valid, views |-> 0, served |-> 0, raced |-> FALSE,
             swept |-> FALSE]
Collect(heap, dict, workers) ==
    [r \in DOMAIN heap |->
        IF (\E k \in Ids : dict[k] = r) \/ (\E w \in Workers : workers[w].entry = r)
        THEN heap[r] ELSE Freed(heap[r])]

\* A worker between requests.  During a request the worker also carries
\* history of the call: whether the lookup came at or after the record's
\* expiry (late) and whether it found a record with views left and not yet
\* expired (live).
IdleWorker == [pc |-> "idle", msg_id |-> "", entry |-> 0, tmp |-> 0,
               text |-> 0, late |-> FALSE, live |-> FALSE]

NoResponse == [status |-> 0, text |-> 0, msg_id |-> ""]
\* The response of send, kept with the fields of the request it answers.
Created(msg_id, expires_in, ttl_in, max_views) ==
    [status |-> 200, id |-> msg_id, expires_in |-> expires_in,
     ttl |-> ttl_in, max_views |-> max_views]

\* The view page: the template context of view_message.
Page(msg_id, ttl_seconds) ==
    [status |-> 200, msg_id |-> msg_id, ttl_seconds |-> ttl_seconds]

Response(status, text, msg_id) == [status |-> status, text |-> text, msg_id |-> msg_id]

\* The cleanup thread in time.sleep(5).  During a pass `quiet` records that no
\* request has run since the pass began.
SleepingSweeper == [pc |-> "sleep", now |-> 0, size |-> 0, visited |-> {},
                    expired |-> <<>>, err |-> "none", quiet |-> FALSE]

\* Any request ends a quiet sweep pass.
Disturb == [sw EXCEPT !.quiet = FALSE]

\* Thread t runs: at most MaxThreads threads take part in a run.
Runs(t) ==
    /\ Cardinality(started \cup {t}) <= MaxThreads
    /\ started' = started \cup {t}

\* ---------------------------------------------------------------- Init
Init ==
    /\ now = 0
    /\ store = [k \in Ids |-> 0]
    /\ obj = <<>>
    /\ resp = NoResponse
    /\ th = [w \in Workers |-> IdleWorker]
    /\ sw = SleepingSweeper
    /\ started = {}

\* ------------------------------------------------------------ the clock
Tick ==
    /\ now < MaxTime
    /\ now' = now + 1
    /\ UNCHANGED <<store, obj, resp, th, sw, started>>

\* ----------------------------------------------------------------- send
\* POST /send.  The only shared access is the one dict assignment, so the
\* handler is one step.  The text of the n-th request is n: every record is
\* identified by its payload.
Send(msg_id, ttl_in, max_views) ==
    /\ Len(obj) < MaxPuts
    /\ LET ttl == PyOr(ttl_in, TTL_SECONDS)
           ref == Len(obj) + 1
       IN  /\ store' = [store EXCEPT ![msg_id] = ref]
           /\ obj' = Collect(Append(obj, NewRecord(ref, now + ttl,
                                   PyOr(max_views, 1),
                                   Valid([ttl |-> ttl_in, max_views |-> max_views]))),
                             store', th)
           /\ resp' = Created(msg_id, ttl, ttl_in, max_views)
    /\ sw' = Disturb
    /\ UNCHANGED <<now, th, started>>

\* ----------------------------------------------------------------- recv
\* The pool hands a request to its first free thread.
Free(w) ==
    /\ th[w].pc = "idle"
    /\ \A u \in Workers : u < w => th[u].pc # "idle"

\* A recv without the `if not entry` test: an empty 200 for a missing id.
RecvMissingServed(w, msg_id) ==
    /\ Free(w)
    /\ Runs(w)
    /\ store[msg_id] = 0
    /\ resp' = Response(200, 0, msg_id)
    /\ sw' = Disturb
    /\ UNCHANGED <<now, store, obj, th>>

\* GET /recv/{msg_id}: entry = store.get(msg_id); 404 when there is none.
RecvNotFound(w, msg_id) ==
    /\ Free(w)
    /\ Runs(w)
    /\ store[msg_id] = 0
    /\ resp' = Response(404, 0, msg_id)
    /\ sw' = Disturb
    /\ UNCHANGED <<now, store, obj, th>>

RecvGet(w, msg_id) ==
    /\ Free(w)
    /\ Runs(w)
    /\ store[msg_id] # 0
    /\ LET entry == store[msg_id]
           late  == now >= obj[entry].expires
       IN  /\ th' = [th EXCEPT ![w] = [IdleWorker EXCEPT
                        !.pc = "load", !.msg_id = msg_id, !.entry = entry,
                        !.late = late,
                        !.live = ~late /\ obj[entry].views_left > 0]]
           /\ obj' = [obj EXCEPT ![entry].raced =
                        @ \/ \E u \in Workers \ {w} : th[u].entry = entry]
    /\ sw' = Disturb
    /\ UNCHANGED <<now, store, resp>>

\* entry["views_left"] -= 1 reads the field ...
RecvLoad(w) ==
    /\ th[w].pc = "load"
    /\ th' = [th EXCEPT ![w].pc = "store",
                        ![w].tmp = obj[th[w].entry].views_left]
    /\ sw' = Disturb
    /\ UNCHANGED <<now, store, obj, resp, started>>

\* ... and writes it back; then msg = entry["data"].
RecvStore(w) ==
    /\ th[w].pc = "store"
    /\ obj' = [obj EXCEPT ![th[w].entry].views_left = Decrement(th[w].tmp)]
    /\ th' = [th EXCEPT ![w].pc = "check",
                        ![w].tmp = 0,
                        ![w].text = obj[th[w].entry].data]
    /\ sw' = Disturb
    /\ UNCHANGED <<now, store, resp, started>>

\* The record after a response that carried it.
Served(heap, r) == [heap EXCEPT ![r].served = @ + 1]

\* Views are left: return {"text": msg}.
RecvReturn(w) ==
    /\ th[w].pc = "check"
    /\ ~Exhausted(obj[th[w].entry])
    /\ th' = [th EXCEPT ![w] = IdleWorker]
    /\ resp' = Response(200, th[w].text, th[w].msg_id)
    /\ obj' = Collect(Served(obj, th[w].entry), store, th')
    /\ sw' = Disturb
    /\ UNCHANGED <<now, store, started>>

\* No views are left: del store[msg_id], then return {"text": msg}.
RecvDelete(w) ==
    /\ th[w].pc = "check"
    /\ Exhausted(obj[th[w].entry])
    /\ store[th[w].msg_id] # 0
    /\ store' = [store EXCEPT ![th[w].msg_id] = 0]
    /\ th' = [th EXCEPT ![w] = IdleWorker]
    /\ resp' = Response(200, th[w].text, th[w].msg_id)
    /\ obj' = Collect(Served(obj, th[w].entry), store', th')
    /\ sw' = Disturb
    /\ UNCHANGED <<now, started>>

\* del store[msg_id] on a key that is gone raises KeyError: the request
\* ends in the framework's 500 response.
RecvDeleteFail(w) ==
    /\ th[w].pc = "check"
    /\ Exhausted(obj[th[w].entry])
    /\ store[th[w].msg_id] = 0
    /\ th' = [th EXCEPT ![w] = IdleWorker]
    /\ resp' = Response(500, 0, th[w].msg_id)
    /\ obj' = Collect(obj, store, th')
    /\ sw' = Disturb
    /\ UNCHANGED <<now, store, started>>

\* --------------------------------------------------------- view_message
\* max(0, int(entry["expires"] - time.time())).  The clock counts whole
\* seconds, so int() has no fraction to cut.
Countdown(v, t) == IF v.expires - t > 0 THEN v.expires - t ELSE 0

\* A view page that counts a view as recv does.
ViewConsuming(w, msg_id) ==
    /\ Free(w)
    /\ Runs(w)
    /\ resp' = Page(msg_id, IF store[msg_id] = 0 THEN 0
                            ELSE Countdown(obj[store[msg_id]], now))
    /\ obj' = IF store[msg_id] = 0 THEN obj
              ELSE [obj EXCEPT ![store[msg_id]].views_left = @ - 1]
    /\ sw' = Disturb
    /\ UNCHANGED <<now, store, th>>

\* GET /recv/{msg_id}/view: entry = store.get(msg_id); the countdown is 0
\* without an entry.  The handler only reads, so it is one step.
ViewMessage(w, msg_id) ==
    /\ Free(w)
    /\ Runs(w)
    /\ resp' = Page(msg_id, IF store[msg_id] = 0 THEN 0
                            ELSE Countdown(obj[store[msg_id]], now))
    /\ sw' = Disturb
    /\ UNCHANGED <<now, store, obj, th>>

\* --------------------------------------------------------- cleanup_loop
\* now = time.time(); the list comprehension starts to iterate store.items().
SweepBegin ==
    /\ sw.pc = "sleep"
    /\ Runs(Cleaner)
    /\ sw' = [pc |-> "scan", now |-> now, size |-> StoreLen, visited |-> {},
              expired |-> <<>>, err |-> "none", quiet |-> TRUE]
    /\ UNCHANGED <<now, store, obj, resp, th>>

\* One step of the iteration: the next item, filtered.
SweepScanItem(k) ==
    /\ sw.pc = "scan"
    /\ StoreLen = sw.size
    /\ k \in Keys \ sw.visited
    /\ sw' = [sw EXCEPT !.visited = @ \cup {k},
                        !.expired = IF IsExpired(obj[store[k]], sw.now)
                                    THEN Append(@, k) ELSE @]
    /\ UNCHANGED <<now, store, obj, resp, th, started>>

\* The dict changed size since the iteration began: RuntimeError, which
\* nothing catches; the thread ends.
SweepScanFail ==
    /\ sw.pc = "scan"
    /\ StoreLen # sw.size
    /\ sw' = [SleepingSweeper EXCEPT !.pc = "dead", !.err = "RuntimeError"]
    /\ UNCHANGED <<now, store, obj, resp, th, started>>

\* The iteration is exhausted; with nothing to delete the pass is over.
SweepScanEnd ==
    /\ sw.pc = "scan"
    /\ StoreLen = sw.size
    /\ Keys \ sw.visited = {}
    /\ sw' = IF sw.expired = <<>> THEN SleepingSweeper
              ELSE [sw EXCEPT !.pc = "delete", !.size = 0, !.visited = {}]
    /\ UNCHANGED <<now, store, obj, resp, th, started>>

\* for k in expired: del store[k]
SweepDelete ==
    /\ sw.pc = "delete"
    /\ store[Head(sw.expired)] # 0
    /\ store' = [store EXCEPT ![Head(sw.expired)] = 0]
    /\ sw' = IF Tail(sw.expired) = <<>> THEN SleepingSweeper
              ELSE [sw EXCEPT !.expired = Tail(@)]
    /\ obj' = Collect([obj EXCEPT ![store[Head(sw.expired)]].swept = TRUE],
                      store', th)
    /\ UNCHANGED <<now, resp, th, started>>

\* del store[k] on a key a request removed meanwhile: KeyError, the thread ends.
SweepDeleteFail ==
    /\ sw.pc = "delete"
    /\ store[Head(sw.expired)] = 0
    /\ sw' = [SleepingSweeper EXCEPT !.pc = "dead", !.err = "KeyError"]
    /\ UNCHANGED <<now, store, obj, resp, th, started>>

Sweep ==
    \/ SweepBegin
    \/ \E k \in Ids : SweepScanItem(k)
    \/ SweepScanFail
    \/ SweepScanEnd
    \/ SweepDelete
    \/ SweepDeleteFail

\* ----------------------------------------------------------------- Next
Next ==
    \/ Tick
    \/ \E msg_id \in Tokens(Len(obj) + 1), ttl_in \in TtlInputs,
          max_views \in ViewInputs :
          Send(msg_id, ttl_in, max_views)
    \/ \E w \in Workers, msg_id \in Ids : RecvNotFound(w, msg_id)
    \/ \E w \in Workers, msg_id \in Ids : RecvGet(w, msg_id)
    \/ \E w \in Workers : RecvLoad(w)
    \/ \E w \in Workers : RecvStore(w)
    \/ \E w \in Workers : RecvReturn(w)
    \/ \E w \in Workers : RecvDelete(w)
    \/ \E w \in Workers : RecvDeleteFail(w)
    \/ Sweep

Spec == Init /\ [][Next]_vars

\* The view page over the stores that send, the clock and the cleanup thread
\* produce.  view_message reads the store and the clock and writes nothing, so
\* it takes no part in the interleavings of Spec.  Nothing here deletes a key
\* behind the cleanup thread, so its `del store[k]` cannot fail.
NextView ==
    \/ Tick
    \/ \E msg_id \in Tokens(Len(obj) + 1), ttl_in \in TtlInputs,
          max_views \in ViewInputs :
          Send(msg_id, ttl_in, max_views)
    \/ \E w \in Workers, msg_id \in Ids : ViewMessage(w, msg_id)
    \/ SweepBegin
    \/ \E k \in Ids : SweepScanItem(k)
    \/ SweepScanFail
    \/ SweepScanEnd
    \/ SweepDelete

SpecView == Init /\ [][NextView]_vars

\* ------------------------------------------------------------ properties

\* The step in which worker w, past the lookup, answers its request.
Responds(w) == th[w].pc = "check" /\ th'[w].pc = "idle"

\* The step of a /send that stored a record.
Stores == Len(obj') > Len(obj)

\* LIVE of the data model: views remain and the expiry is still ahead.
Live(v) == v.views_left > 0 /\ now < v.expires

\* Every /send so far was a valid request.
AllValid == \A r \in DOMAIN obj : obj[r].valid

\* C1 -- At-most-N-views: a record created by a valid request with N views,
\* whose id no later send has taken, is carried by at most N /recv responses:
\* a response carries it only while fewer than N responses have carried it
\* before.
AtMostNViews ==
    [][\A w \in Workers :
          LET v == obj[th[w].entry] IN
          (Responds(w) /\ resp'.status = 200 /\ v.valid
                       /\ store[th[w].msg_id] \in {0, th[w].entry})
              => v.served < v.views]_vars

\* C2 -- Exactly-once-on-exhaustion race: of the recv calls that held a valid
\* one-view record at the same time, one answers 200 with the stored text, and
\* no other has before it; every other answers 404, and the last of them to
\* answer does so only if the record was served.
ExactlyOneWinner ==
    [][\A w \in Workers :
          LET v == obj[th[w].entry] IN
          (Responds(w) /\ v.raced /\ v.valid /\ v.views = 1)
              => \/ resp'.status = 200 /\ resp'.text = v.data /\ v.served = 0
                 \/ /\ resp'.status = 404
                    /\ v.served = 1 \/ \E u \in Workers \ {w} : th[u].entry = th[w].entry]_vars

\* C3 -- TTL enforcement: a recv whose lookup of a validly created record
\* came at or after expires (the creation time plus the ttl) does not return
\* the payload, whatever the view count and whether or not the cleanup thread
\* has run.
TTLEnforced ==
    [][\A w \in Workers :
          (Responds(w) /\ th[w].late /\ obj[th[w].entry].valid)
              => resp'.status # 200]_vars

\* C4 -- Sweep/Take race: with valid requests only, the cleanup pass never
\* fails deleting a key a recv removed first, and a recv whose key the pass
\* removed first answers as for an absent id (404) instead of returning the
\* record or failing.
SweepTakeRaceSafe ==
    [][/\ AllValid => sw'.err # "KeyError"
       /\ \A w \in Workers :
             (Responds(w) /\ obj[th[w].entry].swept /\ obj[th[w].entry].valid)
                 => resp'.status = 404]_vars

\* C5 -- InvalidConfiguration: no /send with ttl <= 0 or max_views <= 0
\* stores a record: every record stored comes from a request with both
\* fields positive (or ttl omitted).
InvalidConfigurationRejected ==
    [][Stores => obj'[Len(obj')].valid]_vars

\* C6 -- Sweep correctness: with valid requests only, a cleanup pass during
\* which no request ran, begun at time t, deletes only records with
\* expires <= t, and ends with no record with expires <= t left in the store
\* (so a second pass at t deletes nothing).
SweepCorrect ==
    [][(sw.quiet /\ AllValid) =>
          /\ \A k \in Ids :
                (store[k] # 0 /\ store'[k] = 0)
                    => obj[store[k]].expires <= sw.now
          /\ (sw'.pc = "sleep")
                => \A k \in Ids :
                      store'[k] # 0 => obj'[store'[k]].expires > sw.now]_vars

\* C7 -- Eventual reclamation: no interleaving of the cleanup thread with
\* valid /send and /recv requests ends the thread; it is always there to run
\* its next pass.
SweeperNeverStops == AllValid => sw.pc # "dead"

\* C8 -- No silent overwrite: a valid /send leaves every record that was live
\* before it in the store under its id, unchanged.
NoSilentOverwrite ==
    [][(Stores /\ AllValid') =>
          \A k \in Ids :
             (store[k] # 0 /\ Live(obj[store[k]]))
                 => store'[k] = store[k] /\ obj'[store[k]] = obj[store[k]]]_vars

\* C9 -- Availability: a recv whose lookup found a validly created record
\* with views left and not yet expired, and which no other recv held meanwhile, answers 200 with
\* the record's text.
LiveRecordServed ==
    [][\A w \in Workers :
          LET v == obj[th[w].entry] IN
          (Responds(w) /\ th[w].live /\ v.valid /\ ~v.raced)
              => resp'.status = 200 /\ resp'.text = v.data]_vars

\* C10 -- Indistinguishable absence: with valid requests only, a /recv
\* response is the payload (200) or the one not-found response (404); there
\* is no other outcome.
OnlyNotFound == AllValid => resp.status \in {0, 200, 404}

\* The records of the store that are LIVE.
LiveKeys == {k \in Keys : Live(obj[store[k]])}

\* C11 -- Capacity accounting: with valid requests only, in every reachable
\* state the count /health reports is the number of stored records that are
\* LIVE (views left and not yet expired).
CapacityAccounting == AllValid => Health = Cardinality(LiveKeys)

\* C12 -- GONE is terminal: an id that maps to nothing keeps mapping to
\* nothing until a /send is given it, and a recv call whose lookup finds the
\* id gone is answered 404 (not found) in a step that changes neither the
\* store nor any record.
GoneIsTerminal ==
    [][\A k \in Ids :
          store[k] = 0 =>
             /\ ~Stores => store'[k] = 0
             /\ (resp' # resp /\ ~Stores /\ resp'.msg_id = k
                                /\ \A w \in Workers : ~Responds(w))
                   => resp'.status = 404 /\ store' = store /\ obj' = obj]_vars

\* The one record ever sent was removed by a recv that served it (the cleanup
\* thread never ran), and a later recv on its id was answered 404.
GoneTaken ==
    /\ Len(obj) = 1
    /\ Cleaner \notin started
    /\ store["a1"] = 0
    /\ resp = Response(404, 0, "a1")

\* C13 -- Payload integrity: with valid requests only, a recv that returns a
\* payload returns the text of the record it looked up, and while the record
\* under an id is live no step changes or replaces the text stored under that
\* id.
PayloadIntegrity ==
    [][AllValid' =>
          /\ \A w \in Workers :
                (Responds(w) /\ resp'.status = 200)
                    => resp'.text = obj[th[w].entry].data
          /\ \A k \in Ids :
                (store[k] # 0 /\ Live(obj[store[k]]) /\ store'[k] # 0)
                    => obj'[store'[k]].data = obj[store[k]].data]_vars

\* C14 -- Defaults: a /send stores under the id it returns a record with the
\* request's text; with ttl omitted the record expires at now + 60 and the
\* response reports expires_in = 60, with a positive ttl it expires at
\* now + ttl and expires_in = ttl; with max_views omitted (1, the default of
\* the field) or null the record has views_left = 1, with a positive
\* max_views it has views_left = max_views.
Defaults ==
    [][Stores =>
          LET v == obj'[Len(obj')] IN
          /\ store'[resp'.id] = Len(obj')
          /\ v.data = Len(obj')
          /\ ~resp'.ttl.some
                => v.expires = now + 60 /\ resp'.expires_in = 60
          /\ (resp'.ttl.some /\ resp'.ttl.val > 0)
                => v.expires = now + resp'.ttl.val
                   /\ resp'.expires_in = resp'.ttl.val
          /\ ~resp'.max_views.some => v.views_left = 1
          /\ (resp'.max_views.some /\ resp'.max_views.val > 0)
                => v.views_left = resp'.max_views.val]_vars

\* A /send with ttl omitted and max_views = 1 has just been answered at
\* time 1: expires_in = 60, and the record has expires = 61 and one view.
DefaultsApplied ==
    /\ now = 1
    /\ Len(obj) = 1
    /\ resp = Created("a1", 60, None, Some(1))
    /\ obj[1].expires = 61
    /\ obj[1].views_left = 1

\* No recv call is in progress.
Quiescent == \A w \in Workers : th[w].pc = "idle"

\* C15 -- View counter bounds: with valid requests only, every record in the
\* store has views_left >= 0 in every state; when no recv is in progress it
\* has views_left >= 1, and its counter has gone down by exactly one for each
\* response that carried it.
ViewCounterBounds ==
    AllValid =>
       \A k \in Keys :
          LET v == obj[store[k]] IN
          /\ v.views_left >= 0
          /\ Quiescent => v.views_left >= 1 /\ v.views_left = v.views - v.served

\* The step in which worker w writes back the decremented counter.
Decrements(w) == th[w].pc = "store" /\ th'[w].pc = "check"

\* No recv in progress holds a record whose id a later /send was given.
NoReassigned ==
    \A w \in Workers :
       th[w].pc # "idle" => store[th[w].msg_id] \in {0, th[w].entry}

\* C16 -- Mutation frame: with valid requests only and no id given twice, in
\* every step other than a /send, a record that stays in the store keeps its text and expiry, and
\* its view count changes only by a recv on it writing the count less one; a
\* record leaves the store only by a recv on its id that found no views left
\* or by the cleanup thread at a time now >= expires.
MutationFrame ==
    [][(AllValid /\ NoReassigned /\ ~Stores) =>
          \A k \in Ids :
             store[k] # 0 =>
                LET r == store[k]
                    v == obj[r]
                IN  IF store'[k] = r
                    THEN /\ obj'[r].data = v.data
                         /\ obj'[r].expires = v.expires
                         /\ \/ obj'[r].views_left = v.views_left
                            \/ \E w \in Workers :
                                  /\ Decrements(w) /\ th[w].entry = r
                                  /\ obj'[r].views_left = th[w].tmp - 1
                    ELSE \/ \E w \in Workers :
                              /\ Responds(w) /\ th[w].entry = r
                              /\ th[w].msg_id = k /\ v.views_left <= 0
                         \/ sw.pc = "delete" /\ sw.now >= v.expires]_vars

\* The step of a view_message request for id k.
Views(k) ==
    /\ resp' # resp
    /\ "ttl_seconds" \in DOMAIN resp'
    /\ resp'.msg_id = k

\* C17 -- view_message is read-only: a view page request for any id, present
\* or absent, changes neither the store nor any record (no view is consumed),
\* and its countdown is never negative: max(0, expires - now) for a present
\* record, 0 for an absent id.
ViewReadOnly ==
    [][\A k \in Ids :
          Views(k) =>
             /\ store' = store
             /\ obj' = obj
             /\ resp'.ttl_seconds >= 0
             /\ store[k] = 0 => resp'.ttl_seconds = 0
             /\ store[k] # 0 =>
                   LET v == obj[store[k]] IN
                   resp'.ttl_seconds =
                      IF v.expires >= now THEN v.expires - now ELSE 0]_vars

\* The page of a record that expired a second ago and was never read: the
\* countdown is 0, the record still has its view.
ViewedExpired ==
    /\ now = 2
    /\ store["a1"] = 1
    /\ obj[1].expires = 1
    /\ obj[1].views_left = 1
    /\ resp = Page("a1", 0)

====
